---- MODULE Spec2Model ----
(***************************************************************************)
(* Capture engine of the ESP32 Wi-Fi handshake tool:                       *)
(*   main/handshake_capture.c  (deauth + promiscuous capture session)      *)
(*   components/pcap_writer/pcap_writer.c  (PCAP file writer)              *)
(* Caller tasks run handshake_deauth_and_capture statement by statement;   *)
(* the Wi-Fi driver task runs promisc_cb for every frame it delivers.      *)
(***************************************************************************)
EXTENDS Integers, Sequences, FiniteSets, TLC

\* ---------------------------------------------------------------- bounds
MaxFrames == 2      \* frames the radio delivers in one run
MaxFaults == 1      \* injected failures of radio / file calls in one run
MaxRequests == 2    \* HTTP requests in one run
MaxOpens == 2       \* files a direct caller of the writer opens in one run
MaxOverrunMs == 30  \* the loop is followed this far past its duration

\* caller tasks, each invoking the capture once; receive-callback contexts
Tasks == {1, 2}
CBs == {1, 2}

\* ------------------------------------------------------- program constants
DelayMs == 10               \* vTaskDelay(pdMS_TO_TICKS(10))
CaptureMs == 20000          \* handshake_deauth_and_capture(bssid, channel, 20000)
MinEapolLen == 30           \* if (len < 30) return
LlcOffset == 24             \* payload + 24
DeauthLen == 26             \* uint8_t deauth[26]
GlobalHeaderLen == 24       \* sizeof(pcap_global_header_t)
PacketHeaderLen == 16       \* sizeof(pcap_packet_header_t)
NULL == 0

\* ---------------------------------------------------------------- bytes
Zeros(n) == [i \in 1..n |-> 0]

LE16(n) == <<n % 256, (n \div 256) % 256>>

\* a 32-bit little-endian field given as its high and low 16-bit halves
LE32hl(hi, lo) == LE16(lo) \o LE16(hi)

LE32(n) == LE32hl(n \div 65536, n % 65536)

DecodeLE32(b) == b[1] + 256 * b[2] + 65536 * b[3] + 16777216 * b[4]

\* pcap_global_header_t gh = { 0xa1b2c3d4, 2, 4, 0, 0, 0x0000ffff, 105 }
GlobalHeader ==
    LE32hl(41394, 50132) \o LE16(2) \o LE16(4) \o LE32(0) \o LE32(0)
        \o LE32(65535) \o LE32(105)

\* orig_len left at zero
PacketHeader_NoOrigLen(us, length) ==
    LE32(us \div 1000000) \o LE32(us % 1000000) \o LE32(length) \o LE32(0)

\* pcap_packet_header_t ph = { tv.tv_sec, tv.tv_usec, length, length }
PacketHeader(us, length) ==
    LE32(us \div 1000000) \o LE32(us % 1000000) \o LE32(length) \o LE32(length)

\* ---------------------------------------------------------------- frames
EapolLlc == <<170, 170, 3, 0, 12, 0, 136, 142>>
IpLlc == <<170, 170, 3, 0, 0, 0, 8, 0>>

\* a received packet: the driver's buffer and rx_ctrl.sig_len
Packet(fc0, tag, llc) ==
    [payload |-> <<fc0, 0, tag>> \o Zeros(21) \o llc, sig_len |-> 32]

Packets ==
    << Packet(8, 1, EapolLlc),      \* data frame carrying EAPOL
       Packet(8, 2, EapolLlc),      \* a second EAPOL data frame
       Packet(8, 3, IpLlc),         \* data frame, not EAPOL
       Packet(128, 4, EapolLlc),    \* beacon (management)
       [payload |-> <<8, 0, 5>>, sig_len |-> 3] >>  \* a short buffer

\* the frames the radio delivers
PacketIds == 1..4

\* the buffers a direct caller hands to pcap_writer_write_packet
WriterInputs == 1..Len(Packets)

\* access points a caller may target: BSSID and channel
Targets == { [bssid |-> <<16, 0, 0, 0, 0, 1>>, channel |-> 11],
             [bssid |-> <<16, 0, 0, 0, 0, 2>>, channel |-> 6] }
Durations == {0, 10}
\* values of the chan parameter of a request
AttackChannels == {0, 6, 14}
LocalMac == <<36, 10, 196, 0, 0, 9>>
Broadcast == <<255, 255, 255, 255, 255, 255>>
NoMac == Zeros(6)


\* ------------------------------------------------------------ classifier
\* uint16_t fc = payload[0] | (payload[1] << 8); (fc >> 2) & 0x3
FrameType(payload) == ((payload[1] + payload[2] * 256) \div 4) % 4

\* if (frame_type != 2) return;
NotDataFrame(payload) == FrameType(payload) # 2

\* if (len < 30) return;
TooShort(len) == len < MinEapolLen

\* the protocol type (llc[6], llc[7]) left out of the comparison
LlcMatches_NoEthertype(payload) ==
    \A i \in 0..5 : payload[LlcOffset + i + 1] = EapolLlc[i + 1]

\* llc[0..7] == AA AA 03 00 0C 00 88 8E, llc = payload + 24
LlcMatches(payload) ==
    \A i \in 0..7 : payload[LlcOffset + i + 1] = EapolLlc[i + 1]

\* the part of promisc_cb after the g_capturing test: TRUE iff the frame is
\* handed to pcap_writer_write_packet
Retains(pkt) ==
    /\ ~NotDataFrame(pkt.payload)
    /\ ~TooShort(pkt.sig_len)
    /\ LlcMatches(pkt.payload)

\* offsets of payload read by the && chain of lines 77-79: llc[i] is read
\* when llc[0..i-1] all matched
LlcReads(payload) ==
    {LlcOffset + i : i \in {k \in 0..7 :
        \A j \in 0..(k - 1) : payload[LlcOffset + j + 1] = EapolLlc[j + 1]}}

\* offsets of payload promisc_cb reads before it returns or calls the writer:
\* payload[0] and payload[1] for fc (line 65), then, for a data frame of
\* length 30 or more, the LLC/SNAP bytes
ClassifierReads(pkt) ==
    {0, 1} \cup (IF NotDataFrame(pkt.payload) \/ TooShort(pkt.sig_len)
                 THEN {}
                 ELSE LlcReads(pkt.payload))

\* ---------------------------------------------------------- deauth frame
\* receiver and transmitter copied to each other's place
DeauthFrame_Swapped(dest, src, bssid) ==
    [i \in 1..DeauthLen |->
        IF i = 1 THEN 192
        ELSE IF i \in 5..10 THEN src[i - 4]
        ELSE IF i \in 11..16 THEN dest[i - 10]
        ELSE IF i \in 17..22 THEN bssid[i - 16]
        ELSE IF i = 25 THEN 7
        ELSE 0]

DeauthFrame(dest, src, bssid) ==
    [i \in 1..DeauthLen |->
        IF i = 1 THEN 192
        ELSE IF i \in 5..10 THEN dest[i - 4]
        ELSE IF i \in 11..16 THEN src[i - 10]
        ELSE IF i \in 17..22 THEN bssid[i - 16]
        ELSE IF i = 25 THEN 7
        ELSE 0]

\* --------------------------------------------------- reading a capture file
RECURSIVE IsRecordSeq(_)
IsRecordSeq(b) ==
    \/ Len(b) = 0
    \/ /\ Len(b) >= PacketHeaderLen
       /\ LET n == DecodeLE32(SubSeq(b, 9, 12)) IN
            /\ Len(b) >= PacketHeaderLen + n
            /\ IsRecordSeq(SubSeq(b, PacketHeaderLen + n + 1, Len(b)))

RECURSIVE RecordPayloads(_)
RecordPayloads(b) ==
    IF Len(b) < PacketHeaderLen THEN << >>
    ELSE LET n == DecodeLE32(SubSeq(b, 9, 12)) IN
         IF Len(b) < PacketHeaderLen + n THEN << >>
         ELSE <<SubSeq(b, PacketHeaderLen + 1, PacketHeaderLen + n)>>
                \o RecordPayloads(SubSeq(b, PacketHeaderLen + n + 1, Len(b)))

\* the records of a record area as a reader decodes them: both length
\* fields and the bytes that follow
RECURSIVE ReadRecords(_)
ReadRecords(b) ==
    IF Len(b) < PacketHeaderLen THEN << >>
    ELSE LET n == DecodeLE32(SubSeq(b, 9, 12)) IN
         IF Len(b) < PacketHeaderLen + n THEN << >>
         ELSE <<[incl_len |-> n,
                 orig_len |-> DecodeLE32(SubSeq(b, 13, 16)),
                 data |-> SubSeq(b, PacketHeaderLen + 1, PacketHeaderLen + n)]>>
                \o ReadRecords(SubSeq(b, PacketHeaderLen + n + 1, Len(b)))

ValidCapture(b) ==
    /\ Len(b) >= GlobalHeaderLen
    /\ SubSeq(b, 1, GlobalHeaderLen) = GlobalHeader
    /\ IsRecordSeq(SubSeq(b, GlobalHeaderLen + 1, Len(b)))

CapturePayloads(b) == RecordPayloads(SubSeq(b, GlobalHeaderLen + 1, Len(b)))

\* ------------------------------------------------------------------ state
VARIABLES
    pc,                 \* per caller task: position in handshake_deauth_and_capture
    args,               \* per caller task: [bssid, channel, duration_ms]
    ret,                \* per caller task: returned esp_err_t
    esp_mac,            \* per caller task: local esp_mac[6]
    start_ms,           \* per caller task: local start_ms
    g_capturing, g_target_bssid, g_target_channel,
    radio,              \* Wi-Fi driver: promiscuous, rx_cb, started, channel
    pcap_file,          \* static FILE* of pcap_writer.c (NULL or a handle)
    fbuf,               \* bytes held in the stdio buffer of *pcap_file
    openHandles,        \* handles fopen returned and nobody fclosed
    nHandles,           \* handles handed out so far
    disk,               \* /spiffs/handshake.pcap as stored in flash
    cbpc, cbpkt, cbts,  \* per callback context: position, packet, timestamp
    clock,              \* esp_timer_get_time(), microseconds
    sys,                \* "running", "crashed" or "off"
    faults, nrx,        \* failures injected / frames delivered so far
    txlog,              \* frames handed to esp_wifi_80211_tx, with the sender
    effects,            \* per caller task: kinds of side effect it performed
    setupFailed,        \* per caller task: a setup call reported failure
    rxlog,              \* packets the classifier retains, in delivery order,
                        \* each with whether it arrived during the injection loop
    acked,              \* packets for which pcap_writer_write_packet returned true
    wfail,              \* phases in which pcap_writer_write_packet returned false
    late,               \* a step of promisc_cb ran outside the injection loop
    wraps,              \* esp_timer_get_time() / 1000 counted in units of 2^32:
                        \* the clock reads wraps * 2^32 ms + clock microseconds
    unit,               \* a function called on its own, its arguments and result
    req,                \* the HTTP request being handled, or NoRequest
    resp,               \* the response sent last
    nreq                \* requests received so far

taskVars == <<pc, args, ret, esp_mac, start_ms>>
globals == <<g_capturing, g_target_bssid, g_target_channel>>
writerVars == <<pcap_file, fbuf, openHandles, nHandles, disk>>
cbVars == <<cbpc, cbpkt, cbts>>
envVars == <<clock, sys, faults, nrx>>
histVars == <<txlog, effects, setupFailed, rxlog, acked, wfail, late>>
httpVars == <<req, resp, nreq>>
auxVars == <<wraps, unit, httpVars>>
vars == <<taskVars, globals, radio, writerVars, cbVars, envVars, histVars, auxVars>>

NoFile == [exists |-> FALSE, data |-> << >>]

InitRadio == [promiscuous |-> FALSE, rx_cb |-> "NULL", started |-> TRUE, channel |-> 1]

NoUnit == [fn |-> "none"]

NoRequest == [uri |-> "none"]

NoResponse == [uri |-> "none", status |-> 0, location |-> "", by |-> "none", body |-> << >>]

\* the firmware after boot, us microseconds past the w-th multiple of 2^32 ms
\* of uptime, with u the function call under study
Boot(us, w, u) ==
    /\ pc = [t \in Tasks |-> "idle"]
    /\ args = [t \in Tasks |-> [bssid |-> NoMac, channel |-> 1, duration_ms |-> 0]]
    /\ ret = [t \in Tasks |-> "none"]
    /\ esp_mac = [t \in Tasks |-> NoMac]
    /\ start_ms = [t \in Tasks |-> 0]
    /\ g_capturing = FALSE
    /\ g_target_bssid = NoMac
    /\ g_target_channel = 1
    /\ radio = InitRadio
    /\ pcap_file = NULL
    /\ fbuf = << >>
    /\ openHandles = {}
    /\ nHandles = 0
    /\ disk = NoFile
    /\ cbpc = [cb \in CBs |-> "idle"]
    /\ cbpkt = [cb \in CBs |-> 0]
    /\ cbts = [cb \in CBs |-> 0]
    /\ clock = us
    /\ wraps = w
    /\ unit = u
    /\ req = NoRequest
    /\ resp = NoResponse
    /\ nreq = 0
    /\ sys = "running"
    /\ faults = 0
    /\ nrx = 0
    /\ txlog = {}
    /\ effects = [t \in Tasks |-> {}]
    /\ setupFailed = [t \in Tasks |-> FALSE]
    /\ rxlog = << >>
    /\ acked = << >>
    /\ wfail = {}
    /\ late = FALSE

Init == Boot(0, 0, NoUnit)

Running == sys = "running"

\* a call into the driver or the file system either succeeds or reports failure
CallOutcomes == IF faults < MaxFaults THEN {TRUE, FALSE} ELSE {TRUE}


\* ------------------------------------------------------------- stdio file
\* prefixes of the data that a failing fwrite may still have stored
PartialLens(data) == {0, Len(data) \div 2}

\* fwrite(data, n, 1, pcap_file) on an open stream: on success the bytes are
\* in the stream buffer, which stdio may or may not hand to the file system
\* during the call; on failure only a prefix of them was stored
Fwrite(data, ok) ==
    IF ok
    THEN \E flush \in BOOLEAN :
            IF flush
            THEN /\ disk' = [disk EXCEPT !.data = @ \o fbuf \o data]
                 /\ fbuf' = << >>
            ELSE /\ disk' = disk
                 /\ fbuf' = fbuf \o data
    ELSE \E k \in PartialLens(data) :
            /\ disk' = disk
            /\ fbuf' = fbuf \o SubSeq(data, 1, k)

\* the pointer left as it was after fclose
FcloseAndClear_Dangling ==
    /\ disk' = [disk EXCEPT !.data = @ \o fbuf]
    /\ fbuf' = << >>
    /\ openHandles' = openHandles \ {pcap_file}
    /\ pcap_file' = pcap_file

\* fclose(pcap_file); pcap_file = NULL;
FcloseAndClear ==
    /\ disk' = [disk EXCEPT !.data = @ \o fbuf]
    /\ fbuf' = << >>
    /\ openHandles' = openHandles \ {pcap_file}
    /\ pcap_file' = NULL

\* RAM is lost on a panic or a power cycle; flash and the observation logs stay
ResetRam ==
    /\ pc' = [t \in Tasks |-> "idle"]
    /\ args' = [t \in Tasks |-> [bssid |-> NoMac, channel |-> 1, duration_ms |-> 0]]
    /\ ret' = [t \in Tasks |-> "none"]
    /\ esp_mac' = [t \in Tasks |-> NoMac]
    /\ start_ms' = [t \in Tasks |-> 0]
    /\ g_capturing' = FALSE
    /\ g_target_bssid' = NoMac
    /\ g_target_channel' = 1
    /\ radio' = InitRadio
    /\ pcap_file' = NULL
    /\ fbuf' = << >>
    /\ openHandles' = {}
    /\ nHandles' = 0
    /\ cbpc' = [c \in CBs |-> "idle"]
    /\ cbpkt' = [c \in CBs |-> 0]
    /\ cbts' = [c \in CBs |-> 0]

\* the firmware stops: a panic ("crashed") or loss of power ("off")
Halt(how) ==
    /\ sys' = how
    /\ ResetRam
    /\ UNCHANGED <<disk, clock, faults, nrx, histVars, auxVars>>

PowerCycle ==
    /\ Running
    /\ Halt("off")

\* --------------------------------------- handshake_deauth_and_capture
Goto(t, to) == pc' = [pc EXCEPT ![t] = to]

Did(t, kind) == effects' = [effects EXCEPT ![t] = @ \cup {kind}]

Return(t, code) ==
    /\ ret' = [ret EXCEPT ![t] = code]
    /\ Goto(t, "done")

\* one call into the Wi-Fi driver; the caller discards the esp_err_t
RadioCall(t, to, after, setup) ==
    /\ \E ok \in CallOutcomes :
         /\ radio' = IF ok THEN after ELSE radio
         /\ faults' = IF ok THEN faults ELSE faults + 1
         /\ setupFailed' = [setupFailed EXCEPT ![t] = @ \/ (setup /\ ~ok)]
    /\ Goto(t, to)
    /\ Did(t, "radio")
    /\ UNCHANGED <<args, ret, esp_mac, start_ms, globals, writerVars, cbVars,
                   clock, sys, nrx, txlog, rxlog, acked, wfail, late, auxVars>>

\* a caller task enters handshake_deauth_and_capture(bssid, channel, duration_ms)
Invoke(t, ap, d) ==
    /\ Running
    /\ pc[t] = "idle"
    /\ args' = [args EXCEPT ![t] = [bssid |-> ap.bssid, channel |-> ap.channel, duration_ms |-> d]]
    /\ Goto(t, "L87")
    /\ UNCHANGED <<ret, esp_mac, start_ms, globals, radio, writerVars, cbVars,
                   envVars, histVars, auxVars>>

\* the entry test left out
Rejects_Never(capturing) == FALSE

\* if (g_capturing)
Rejects(capturing) == capturing

\* if (g_capturing) return ESP_ERR_INVALID_STATE;
EntryCheck(t) ==
    /\ Running
    /\ pc[t] = "L87"
    /\ IF Rejects(g_capturing)
       THEN Return(t, "ESP_ERR_INVALID_STATE")
       ELSE Goto(t, "L90") /\ UNCHANGED ret
    /\ UNCHANGED <<args, esp_mac, start_ms, globals, radio, writerVars, cbVars,
                   envVars, histVars, auxVars>>

\* memcpy(g_target_bssid, bssid, 6);
StoreBssid(t) ==
    /\ Running
    /\ pc[t] = "L90"
    /\ g_target_bssid' = args[t].bssid
    /\ Goto(t, "L91")
    /\ Did(t, "target")
    /\ UNCHANGED <<args, ret, esp_mac, start_ms, g_capturing, g_target_channel,
                   radio, writerVars, cbVars, envVars, txlog, setupFailed,
                   rxlog, acked, wfail, late, auxVars>>

\* g_target_channel = channel;
StoreChannel(t) ==
    /\ Running
    /\ pc[t] = "L91"
    /\ g_target_channel' = args[t].channel
    /\ Goto(t, "L94")
    /\ Did(t, "target")
    /\ UNCHANGED <<args, ret, esp_mac, start_ms, g_capturing, g_target_bssid,
                   radio, writerVars, cbVars, envVars, txlog, setupFailed,
                   rxlog, acked, wfail, late, auxVars>>

\* esp_wifi_set_promiscuous(false);
SetupPromiscuousOff(t) ==
    /\ Running
    /\ pc[t] = "L94"
    /\ RadioCall(t, "L95", [radio EXCEPT !.promiscuous = FALSE], TRUE)

\* esp_wifi_stop();
SetupStop(t) ==
    /\ Running
    /\ pc[t] = "L95"
    /\ RadioCall(t, "L98", [radio EXCEPT !.started = FALSE], TRUE)

\* esp_wifi_set_channel(g_target_channel, WIFI_SECOND_CHAN_NONE);
SetupChannel(t) ==
    /\ Running
    /\ pc[t] = "L98"
    /\ RadioCall(t, "L99", [radio EXCEPT !.channel = g_target_channel], TRUE)

\* esp_wifi_start();
SetupStart(t) ==
    /\ Running
    /\ pc[t] = "L99"
    /\ RadioCall(t, "L100", [radio EXCEPT !.started = TRUE], TRUE)

\* esp_wifi_set_promiscuous(true);
SetupPromiscuousOn(t) ==
    /\ Running
    /\ pc[t] = "L100"
    /\ RadioCall(t, "I37", [radio EXCEPT !.promiscuous = TRUE], TRUE)


\* the file opened for appending
FopenWb_Append(d) == [exists |-> TRUE, data |-> d.data]

\* the file after fopen(filename, "wb"): created, or truncated to nothing
FopenWb(d) == [exists |-> TRUE, data |-> << >>]

\* pcap_writer_init, line 37: pcap_file = fopen(filename, "wb");
PcapInitOpen(t) ==
    /\ Running
    /\ pc[t] = "I37"
    /\ \E ok \in CallOutcomes :
         IF ok
         THEN /\ nHandles' = nHandles + 1
              /\ pcap_file' = nHandles + 1
              /\ openHandles' = openHandles \cup {nHandles + 1}
              /\ fbuf' = << >>
              /\ disk' = FopenWb(disk)
              /\ Goto(t, "I53")
              /\ UNCHANGED <<ret, faults, setupFailed>>
         ELSE /\ pcap_file' = NULL
              /\ fbuf' = << >>
              /\ Return(t, "ESP_FAIL")
              /\ faults' = faults + 1
              /\ setupFailed' = [setupFailed EXCEPT ![t] = TRUE]
              /\ UNCHANGED <<nHandles, openHandles, disk>>
    /\ Did(t, "file")
    /\ UNCHANGED <<args, esp_mac, start_ms, globals, radio, cbVars, clock, sys,
                   nrx, txlog, rxlog, acked, wfail, late, auxVars>>

\* pcap_writer_init, lines 53-61: write the global header; on a short write
\* fclose the file, clear pcap_file and return false (caller: return ESP_FAIL)
PcapInitHeader(t) ==
    /\ Running
    /\ pc[t] = "I53"
    /\ IF pcap_file = NULL
       THEN \* fwrite on a FILE* another task has closed and cleared
            \/ Halt("crashed")
            \/ /\ Return(t, "ESP_FAIL")
               /\ setupFailed' = [setupFailed EXCEPT ![t] = TRUE]
               /\ UNCHANGED <<args, esp_mac, start_ms, globals, radio, writerVars,
                              cbVars, envVars, txlog, effects, rxlog, acked, wfail, late, auxVars>>
       ELSE /\ \E ok \in CallOutcomes :
                 IF ok
                 THEN /\ Fwrite(GlobalHeader, TRUE)
                      /\ Goto(t, "L109")
                      /\ UNCHANGED <<ret, faults, setupFailed, pcap_file, openHandles>>
                 ELSE /\ \E k \in PartialLens(GlobalHeader) :
                           disk' = [disk EXCEPT
                                      !.data = @ \o fbuf \o SubSeq(GlobalHeader, 1, k)]
                      /\ fbuf' = << >>
                      /\ openHandles' = openHandles \ {pcap_file}
                      /\ pcap_file' = NULL
                      /\ Return(t, "ESP_FAIL")
                      /\ faults' = faults + 1
                      /\ setupFailed' = [setupFailed EXCEPT ![t] = TRUE]
            /\ UNCHANGED <<args, esp_mac, start_ms, globals, radio, nHandles,
                           cbVars, clock, sys, nrx, txlog, effects, rxlog, acked,
                           wfail, late, auxVars>>

\* orig_cb = esp_wifi_set_promiscuous_rx_cb(promisc_cb);
RegisterCallback(t) ==
    /\ Running
    /\ pc[t] = "L109"
    /\ radio' = [radio EXCEPT !.rx_cb = "promisc_cb"]
    /\ Goto(t, "L111")
    /\ Did(t, "radio")
    /\ UNCHANGED <<args, ret, esp_mac, start_ms, globals, writerVars, cbVars,
                   envVars, txlog, setupFailed, rxlog, acked, wfail, late, auxVars>>

\* g_capturing = true;
SetCapturing(t) ==
    /\ Running
    /\ pc[t] = "L111"
    /\ g_capturing' = TRUE
    /\ Goto(t, "L116")
    /\ UNCHANGED <<args, ret, esp_mac, start_ms, g_target_bssid, g_target_channel,
                   radio, writerVars, cbVars, envVars, histVars, auxVars>>

\* what an unwritten uint8_t esp_mac[6] on the stack may hold
StackGarbage == {NoMac, <<1, 2, 3, 4, 5, 6>>}

\* esp_wifi_get_mac(WIFI_IF_STA, esp_mac);
GetMac(t) ==
    /\ Running
    /\ pc[t] = "L116"
    /\ \E ok \in CallOutcomes :
         IF ok
         THEN /\ esp_mac' = [esp_mac EXCEPT ![t] = LocalMac]
              /\ UNCHANGED faults
         ELSE /\ \E m \in StackGarbage : esp_mac' = [esp_mac EXCEPT ![t] = m]
              /\ faults' = faults + 1
    /\ Goto(t, "L119")
    /\ UNCHANGED <<args, ret, start_ms, globals, radio, writerVars, cbVars,
                   clock, sys, nrx, histVars, auxVars>>

\* esp_timer_get_time() / 1000, an int64_t, held in two limbs: the value is
\* hi * 2^32 + lo. The limbs are model integers below 2^31 in magnitude.
NowMs == [hi |-> wraps, lo |-> clock \div 1000]

\* (uint32_t) x: the low 32 bits of an int64_t
U32(x) == x.lo

\* x - s in int64_t, s a uint32_t promoted to int64_t
Sub64(x, s) == [hi |-> x.hi, lo |-> x.lo - s]

\* d < n in int64_t, n a uint32_t promoted to int64_t; with |d.lo| and n
\* below 2^31, a positive high limb alone puts d above n
Less64(d, n) == d.hi < 0 \/ (d.hi = 0 /\ d.lo < n)

\* uint32_t start_ms = esp_timer_get_time() / 1000;
ReadStart(t) ==
    /\ Running
    /\ pc[t] = "L119"
    /\ start_ms' = [start_ms EXCEPT ![t] = U32(NowMs)]
    /\ Goto(t, "L120")
    /\ UNCHANGED <<args, ret, esp_mac, globals, radio, writerVars, cbVars,
                   envVars, histVars, auxVars>>

\* the operands of the subtraction exchanged
LoopCondition_Swapped(t) ==
    Less64([hi |-> 0 - NowMs.hi, lo |-> start_ms[t] - NowMs.lo], args[t].duration_ms)

\* (esp_timer_get_time() / 1000 - start_ms) < duration_ms
LoopCondition(t) == Less64(Sub64(NowMs, start_ms[t]), args[t].duration_ms)

\* while (...) {
LoopTest(t) ==
    /\ Running
    /\ pc[t] = "L120"
    /\ IF LoopCondition(t) THEN Goto(t, "L123") ELSE Goto(t, "L130")
    /\ UNCHANGED <<args, ret, esp_mac, start_ms, globals, radio, writerVars,
                   cbVars, envVars, histVars, auxVars>>

\* send_deauth_frame(brc, esp_mac, g_target_bssid);
SendDeauth(t) ==
    /\ Running
    /\ pc[t] = "L123"
    /\ txlog' = txlog \cup
          {[task |-> t, frame |-> DeauthFrame(Broadcast, esp_mac[t], g_target_bssid)]}
    /\ Goto(t, "L124")
    /\ UNCHANGED <<args, ret, esp_mac, start_ms, globals, radio, writerVars,
                   cbVars, envVars, effects, setupFailed, rxlog, acked, wfail, late, auxVars>>

\* vTaskDelay(pdMS_TO_TICKS(10));
Delay(t) ==
    /\ Running
    /\ pc[t] = "L124"
    /\ clock \div 1000 - start_ms[t] <= args[t].duration_ms + MaxOverrunMs
    /\ clock' = clock + DelayMs * 1000
    /\ Goto(t, "L120")
    /\ UNCHANGED <<args, ret, esp_mac, start_ms, globals, radio, writerVars,
                   cbVars, sys, faults, nrx, histVars, auxVars>>

\* esp_wifi_set_promiscuous(false);
TeardownPromiscuousOff(t) ==
    /\ Running
    /\ pc[t] = "L130"
    /\ RadioCall(t, "L131", [radio EXCEPT !.promiscuous = FALSE], FALSE)

\* esp_wifi_set_promiscuous_rx_cb(NULL);
UnregisterCallback(t) ==
    /\ Running
    /\ pc[t] = "L131"
    /\ radio' = [radio EXCEPT !.rx_cb = "NULL"]
    /\ Goto(t, "L134")
    /\ Did(t, "radio")
    /\ UNCHANGED <<args, ret, esp_mac, start_ms, globals, writerVars, cbVars,
                   envVars, txlog, setupFailed, rxlog, acked, wfail, late, auxVars>>

\* pcap_writer_close();
PcapClose(t) ==
    /\ Running
    /\ pc[t] = "L134"
    /\ IF pcap_file # NULL
       THEN FcloseAndClear
       ELSE UNCHANGED <<disk, fbuf, openHandles, pcap_file>>
    /\ Goto(t, "L135")
    /\ Did(t, "file")
    /\ UNCHANGED <<args, ret, esp_mac, start_ms, globals, radio, nHandles, cbVars,
                   envVars, txlog, setupFailed, rxlog, acked, wfail, late, auxVars>>

\* line 135 without its assignment
ClearCapturing_Skipped(t) ==
    /\ Running
    /\ pc[t] = "L135"
    /\ Goto(t, "L138")
    /\ UNCHANGED <<args, ret, esp_mac, start_ms, globals,
                   radio, writerVars, cbVars, envVars, histVars, auxVars>>

\* g_capturing = false;
ClearCapturing(t) ==
    /\ Running
    /\ pc[t] = "L135"
    /\ g_capturing' = FALSE
    /\ Goto(t, "L138")
    /\ UNCHANGED <<args, ret, esp_mac, start_ms, g_target_bssid, g_target_channel,
                   radio, writerVars, cbVars, envVars, histVars, auxVars>>

\* esp_wifi_stop();
RestoreStop(t) ==
    /\ Running
    /\ pc[t] = "L138"
    /\ RadioCall(t, "L139", [radio EXCEPT !.started = FALSE], FALSE)

\* esp_wifi_start(); return ESP_OK;
RestoreStart(t) ==
    /\ Running
    /\ pc[t] = "L139"
    /\ \E ok \in CallOutcomes :
         /\ radio' = IF ok THEN [radio EXCEPT !.started = TRUE] ELSE radio
         /\ faults' = IF ok THEN faults ELSE faults + 1
    /\ Return(t, "ESP_OK")
    /\ Did(t, "radio")
    /\ UNCHANGED <<args, esp_mac, start_ms, globals, writerVars, cbVars,
                   clock, sys, nrx, txlog, setupFailed, rxlog, acked, wfail, late, auxVars>>


\* ------------------------------------------------------------ session phase
SetupPcs == {"L90", "L91", "L94", "L95", "L98", "L99", "L100", "I37", "I53"}
ActivatingPcs == {"L109", "L111", "L116", "L119"}
ActivePcs == {"L120", "L123", "L124"}
RestoringPcs == {"L130", "L131", "L134", "L135", "L138", "L139"}

\* past the entry check and not yet returned
InSession(t) == pc[t] \in SetupPcs \cup ActivatingPcs \cup ActivePcs \cup RestoringPcs

InWindow == \E t \in Tasks : pc[t] \in ActivePcs

\* ------------------------------------------------------------- promisc_cb
\* a statement of promisc_cb or of the writer call it makes is executed
CbRan == late' = (late \/ ~InWindow)

\* pcap_writer_write_packet returns false
WriteFailed == wfail' = wfail \cup {IF InWindow THEN "active" ELSE "other"}

CbIdle == \A c \in CBs : cbpc[c] = "idle"

Receive(c, i) ==
    /\ Running
    /\ radio.started /\ radio.promiscuous /\ radio.rx_cb = "promisc_cb"
    /\ nrx < MaxFrames
    /\ cbpc[c] = "idle"
    /\ cbpc' = [cbpc EXCEPT ![c] = "C58"]
    /\ cbpkt' = [cbpkt EXCEPT ![c] = i]
    /\ nrx' = nrx + 1
    /\ rxlog' = IF Retains(Packets[i])
                THEN Append(rxlog, [pkt |-> i, win |-> InWindow])
                ELSE rxlog
    /\ UNCHANGED <<taskVars, globals, radio, writerVars, cbts, clock, sys, faults,
                   txlog, effects, setupFailed, acked, wfail, late, auxVars>>

\* the driver task calls promisc_cb(buf, type) for a received frame
Deliver(i) ==
    /\ CbIdle
    /\ Receive(1, i)

\* promisc_cb is entered again while an earlier invocation has not returned
DeliverNested(c, i) ==
    /\ c > 1
    /\ cbpc[c - 1] # "idle"
    /\ Receive(c, i)

CbReturn(c) ==
    /\ cbpc' = [cbpc EXCEPT ![c] = "idle"]
    /\ cbpkt' = [cbpkt EXCEPT ![c] = 0]
    /\ cbts' = [cbts EXCEPT ![c] = 0]

\* promisc_cb lines 58-82: the g_capturing test and the classification
PromiscCb(c) ==
    /\ Running
    /\ cbpc[c] = "C58"
    /\ IF g_capturing /\ Retains(Packets[cbpkt[c]])
       THEN /\ cbpc' = [cbpc EXCEPT ![c] = "W66"]
            /\ UNCHANGED <<cbpkt, cbts>>
       ELSE CbReturn(c)
    /\ CbRan
    /\ UNCHANGED <<taskVars, globals, radio, writerVars, envVars, txlog, effects,
                   setupFailed, rxlog, acked, wfail, auxVars>>

\* pcap_writer_write_packet lines 66-78: NULL test, gettimeofday, build ph
WritePacketEntry(c) ==
    /\ Running
    /\ cbpc[c] = "W66"
    /\ IF pcap_file = NULL
       THEN /\ CbReturn(c)
            /\ WriteFailed
       ELSE /\ cbpc' = [cbpc EXCEPT ![c] = "W80"]
            /\ cbts' = [cbts EXCEPT ![c] = clock]
            /\ UNCHANGED <<cbpkt, wfail>>
    /\ CbRan
    /\ UNCHANGED <<taskVars, globals, radio, writerVars, envVars, txlog, effects,
                   setupFailed, rxlog, acked, auxVars>>

\* fwrite through a pcap_file that was closed and cleared after the NULL test:
\* the firmware panics, or the call reports failure and stores nothing
WriteAfterClose(c) ==
    \/ Halt("crashed")
    \/ /\ CbReturn(c)
       /\ WriteFailed
       /\ CbRan
       /\ UNCHANGED <<taskVars, globals, radio, writerVars, envVars, txlog,
                      effects, setupFailed, rxlog, acked, auxVars>>

\* pcap_writer_write_packet lines 80-83: fwrite(&ph, sizeof(ph), 1, pcap_file)
WritePacketHeader(c) ==
    /\ Running
    /\ cbpc[c] = "W80"
    /\ IF pcap_file = NULL
       THEN WriteAfterClose(c)
       ELSE /\ \E ok \in CallOutcomes :
                 /\ Fwrite(PacketHeader(cbts[c], Packets[cbpkt[c]].sig_len), ok)
                 /\ IF ok
                    THEN /\ cbpc' = [cbpc EXCEPT ![c] = "W84"]
                         /\ UNCHANGED <<cbpkt, cbts, faults, wfail>>
                    ELSE /\ CbReturn(c)
                         /\ faults' = faults + 1
                         /\ WriteFailed
            /\ CbRan
            /\ UNCHANGED <<taskVars, globals, radio, pcap_file, openHandles,
                           nHandles, clock, sys, nrx, txlog, effects, setupFailed,
                           rxlog, acked, auxVars>>

\* pcap_writer_write_packet lines 84-88: fwrite(data, length, 1, pcap_file)
WritePacketData(c) ==
    /\ Running
    /\ cbpc[c] = "W84"
    /\ IF pcap_file = NULL
       THEN WriteAfterClose(c)
       ELSE /\ \E ok \in CallOutcomes :
                 /\ Fwrite(SubSeq(Packets[cbpkt[c]].payload, 1,
                                  Packets[cbpkt[c]].sig_len), ok)
                 /\ IF ok
                    THEN /\ acked' = Append(acked, cbpkt[c])
                         /\ UNCHANGED <<faults, wfail>>
                    ELSE /\ faults' = faults + 1
                         /\ WriteFailed
                         /\ UNCHANGED acked
            /\ CbReturn(c)
            /\ CbRan
            /\ UNCHANGED <<taskVars, globals, radio, pcap_file, openHandles,
                           nHandles, clock, sys, nrx, txlog, effects, setupFailed,
                           rxlog, auxVars>>

\* ------------------------------------------------------------ http_server
\* the HTTP server task is the only caller in the firmware as built
HttpTask == 1

\* the bssid parameter of an /attack request
AttackBssid == <<16, 0, 0, 0, 0, 1>>

\* GET requests the server has a handler for: the URI, for /confirm and
\* /attack whether the query parameters are present and well formed, and for
\* /attack the value of chan and the BSSID
Requests ==
    { [uri |-> u, query_ok |-> TRUE, chan |-> 0, bssid |-> NoMac] :
        u \in {"/", "/scan", "/download"} }
    \cup { [uri |-> "/confirm", query_ok |-> q, chan |-> 0, bssid |-> NoMac] :
            q \in BOOLEAN }
    \cup { [uri |-> "/attack", query_ok |-> q, chan |-> ch, bssid |-> AttackBssid] :
            q \in BOOLEAN, ch \in AttackChannels }

\* stat("/spiffs/handshake.pcap", &st) == 0
handshake_exists == disk.exists

\* strncmp(req->uri, "/download", 9) != 0
NotDownload(uri) == uri # "/download"

\* check_and_clean returns true: it unlinks the file and redirects
Cleans(r) == handshake_exists /\ NotDownload(r.uri)

\* httpd_resp_set_status, httpd_resp_set_hdr("Location"), httpd_resp_send /
\* httpd_resp_send_err: the request is answered
Respond(status, location, by, body) ==
    /\ resp' = [uri |-> req.uri, status |-> status, location |-> location,
                by |-> by, body |-> body]
    /\ req' = NoRequest

\* check_and_clean without its unlink: the redirect alone
CheckAndClean_NoUnlink ==
    /\ disk' = disk
    /\ Respond(302, "/scan", "check_and_clean", << >>)

\* the body of check_and_clean when it cleans: unlink, 302 to /scan
CheckAndClean ==
    /\ disk' = NoFile
    /\ Respond(302, "/scan", "check_and_clean", << >>)

\* the server task takes the next request off the socket
HttpReceive(r) ==
    /\ Running
    /\ req = NoRequest
    /\ pc[HttpTask] = "idle"
    /\ nreq < MaxRequests
    /\ req' = r
    /\ nreq' = nreq + 1
    /\ UNCHANGED <<taskVars, globals, radio, writerVars, cbVars, envVars,
                   histVars, wraps, unit, resp>>

\* root_get_handler
RootGet ==
    /\ Running
    /\ req.uri = "/"
    /\ IF Cleans(req)
       THEN CheckAndClean
       ELSE Respond(302, "/scan", "root_get_handler", << >>) /\ UNCHANGED disk
    /\ UNCHANGED <<taskVars, globals, radio, pcap_file, fbuf, openHandles,
                   nHandles, cbVars, envVars, histVars, wraps, unit, nreq>>

\* scan_get_handler: wifi_scan_once restarts the radio and allocates the list;
\* an ESP_ERROR_CHECK inside it aborts the firmware
ScanGet ==
    /\ Running
    /\ req.uri = "/scan"
    /\ IF Cleans(req)
       THEN /\ CheckAndClean
            /\ UNCHANGED <<taskVars, globals, radio, pcap_file, fbuf, openHandles,
                           nHandles, cbVars, envVars, histVars, wraps, unit, nreq>>
       ELSE \/ \E ok \in CallOutcomes :
                 /\ radio' = [radio EXCEPT !.started = TRUE]
                 /\ faults' = IF ok THEN faults ELSE faults + 1
                 /\ IF ok
                    THEN Respond(200, "", "scan_get_handler", << >>)
                    ELSE Respond(500, "", "scan_get_handler", << >>)
                 /\ UNCHANGED <<taskVars, globals, writerVars, cbVars, clock, sys,
                                nrx, histVars, wraps, unit, nreq>>
            \/ /\ faults < MaxFaults
               /\ Halt("crashed")

\* confirm_get_handler
ConfirmGet ==
    /\ Running
    /\ req.uri = "/confirm"
    /\ IF Cleans(req)
       THEN CheckAndClean
       ELSE /\ IF req.query_ok
               THEN Respond(200, "", "confirm_get_handler", << >>)
               ELSE Respond(400, "", "confirm_get_handler", << >>)
            /\ UNCHANGED disk
    /\ UNCHANGED <<taskVars, globals, radio, pcap_file, fbuf, openHandles,
                   nHandles, cbVars, envVars, histVars, wraps, unit, nreq>>

\* if (channel < 1 || channel > 13)
InvalidChannel(channel) == channel < 1 \/ channel > 13

\* attack_get_handler up to the call of handshake_deauth_and_capture
AttackGet ==
    /\ Running
    /\ req.uri = "/attack"
    /\ pc[HttpTask] = "idle"
    /\ IF Cleans(req)
       THEN /\ CheckAndClean
            /\ UNCHANGED <<pc, args>>
       ELSE IF ~req.query_ok \/ InvalidChannel(req.chan)
       THEN /\ Respond(400, "", "attack_get_handler", << >>)
            /\ UNCHANGED <<pc, args, disk>>
       ELSE /\ args' = [args EXCEPT ![HttpTask] =
                          [bssid |-> req.bssid, channel |-> req.chan,
                           duration_ms |-> CaptureMs]]
            /\ Goto(HttpTask, "L87")
            /\ UNCHANGED <<req, resp, disk>>
    /\ UNCHANGED <<ret, esp_mac, start_ms, globals, radio, pcap_file, fbuf,
                   openHandles, nHandles, cbVars, envVars, histVars, wraps,
                   unit, nreq>>

\* attack_get_handler after handshake_deauth_and_capture has returned
AttackRespond ==
    /\ Running
    /\ req.uri = "/attack"
    /\ pc[HttpTask] = "done"
    /\ IF ret[HttpTask] # "ESP_OK"
       THEN Respond(500, "", "attack_get_handler", << >>)
       ELSE Respond(200, "", "attack_get_handler", << >>)
    /\ Goto(HttpTask, "idle")
    /\ UNCHANGED <<args, ret, esp_mac, start_ms, globals, radio, writerVars,
                   cbVars, envVars, histVars, wraps, unit, nreq>>

\* download_get_handler: 404 without a file, 500 if it cannot be opened,
\* otherwise the file's bytes as they are
DownloadGet ==
    /\ Running
    /\ req.uri = "/download"
    /\ IF ~handshake_exists
       THEN Respond(404, "", "download_get_handler", << >>) /\ UNCHANGED faults
       ELSE \E ok \in CallOutcomes :
              /\ faults' = IF ok THEN faults ELSE faults + 1
              /\ IF ok
                 THEN Respond(200, "", "download_get_handler", disk.data)
                 ELSE Respond(500, "", "download_get_handler", << >>)
    /\ UNCHANGED <<taskVars, globals, radio, writerVars, cbVars, clock, sys,
                   nrx, histVars, wraps, unit, nreq>>

\* ------------------------------------------------------------ specification
\* the statements of handshake_deauth_and_capture
TaskBody(t) ==
    \/ EntryCheck(t)
    \/ StoreBssid(t)
    \/ StoreChannel(t)
    \/ SetupPromiscuousOff(t)
    \/ SetupStop(t)
    \/ SetupChannel(t)
    \/ SetupStart(t)
    \/ SetupPromiscuousOn(t)
    \/ PcapInitOpen(t)
    \/ PcapInitHeader(t)
    \/ RegisterCallback(t)
    \/ SetCapturing(t)
    \/ GetMac(t)
    \/ ReadStart(t)
    \/ LoopTest(t)
    \/ SendDeauth(t)
    \/ Delay(t)
    \/ TeardownPromiscuousOff(t)
    \/ UnregisterCallback(t)
    \/ PcapClose(t)
    \/ ClearCapturing(t)
    \/ RestoreStop(t)
    \/ RestoreStart(t)

TaskStep(t) ==
    \/ \E ap \in Targets, d \in Durations : Invoke(t, ap, d)
    \/ TaskBody(t)

CbStep(c) ==
    \/ PromiscCb(c)
    \/ WritePacketEntry(c)
    \/ WritePacketHeader(c)
    \/ WritePacketData(c)

\* one caller task, and the driver task delivers one frame at a time

Next ==
    \/ TaskStep(HttpTask)
    \/ \E i \in PacketIds : Deliver(i)
    \/ \E c \in CBs : CbStep(c)
    \/ PowerCycle

Spec == Init /\ [][Next]_vars

\* several tasks call handshake_deauth_and_capture and are preempted freely
NextConcurrent ==
    \/ \E t \in Tasks : TaskStep(t)

SpecConcurrent == Init /\ [][NextConcurrent]_vars

\* a runtime that re-enters the receive callback while a write is in flight
NextReentrant ==
    \/ TaskStep(HttpTask)
    \/ \E i \in PacketIds : Deliver(i)
    \/ \E c \in CBs, i \in PacketIds : DeliverNested(c, i)
    \/ \E c \in CBs : CbStep(c)

SpecReentrant == Init /\ [][NextReentrant]_vars

\* the caller has its result and is free to call again
CallerReturns(t) ==
    /\ Running
    /\ pc[t] = "done"
    /\ nHandles < MaxOpens
    /\ Goto(t, "idle")
    /\ UNCHANGED <<args, ret, esp_mac, start_ms, globals, radio, writerVars,
                   cbVars, envVars, histVars, auxVars>>

\* one caller task that calls handshake_deauth_and_capture again and again,
\* each call after the previous one has returned
NextSequential ==
    \/ TaskStep(HttpTask)
    \/ CallerReturns(HttpTask)

SpecSequential == Init /\ [][NextSequential]_vars

\* a client of pcap_writer.h calling pcap_writer_init, pcap_writer_write_packet
\* and pcap_writer_close one after another in any order; it starts counting
\* the accepted and refused writes afresh with each file it opens
Client == 1

ClientIdle == pc[Client] = "idle" /\ CbIdle

CallInit ==
    /\ Running
    /\ ClientIdle
    /\ nHandles < MaxOpens
    /\ Goto(Client, "I37")
    /\ acked' = << >>
    /\ wfail' = {}
    /\ setupFailed' = [setupFailed EXCEPT ![Client] = FALSE]
    /\ UNCHANGED <<args, ret, esp_mac, start_ms, globals, radio, writerVars,
                   cbVars, envVars, txlog, effects, rxlog, late, auxVars>>

\* pcap_writer_init has returned, true or false
InitReturns ==
    /\ Running
    /\ pc[Client] \in {"L109", "done"}
    /\ Goto(Client, "idle")
    /\ UNCHANGED <<args, ret, esp_mac, start_ms, globals, radio, writerVars,
                   cbVars, envVars, histVars, auxVars>>

CallWrite(i) ==
    /\ Running
    /\ ClientIdle
    /\ nrx < MaxFrames
    /\ cbpc' = [cbpc EXCEPT ![1] = "W66"]
    /\ cbpkt' = [cbpkt EXCEPT ![1] = i]
    /\ nrx' = nrx + 1
    /\ UNCHANGED <<taskVars, globals, radio, writerVars, cbts, clock, sys, faults,
                   histVars, auxVars>>

CallClose ==
    /\ Running
    /\ ClientIdle
    /\ Goto(Client, "L134")
    /\ UNCHANGED <<args, ret, esp_mac, start_ms, globals, radio, writerVars,
                   cbVars, envVars, histVars, auxVars>>

\* pcap_writer_close has returned
CloseReturns ==
    /\ Running
    /\ pc[Client] = "L135"
    /\ Goto(Client, "idle")
    /\ UNCHANGED <<args, ret, esp_mac, start_ms, globals, radio, writerVars,
                   cbVars, envVars, histVars, auxVars>>

NextWriter ==
    \/ CallInit
    \/ PcapInitOpen(Client)
    \/ PcapInitHeader(Client)
    \/ InitReturns
    \/ \E i \in WriterInputs : CallWrite(i)
    \/ WritePacketEntry(1)
    \/ WritePacketHeader(1)
    \/ WritePacketData(1)
    \/ CallClose
    \/ PcapClose(Client)
    \/ CloseReturns

SpecWriter == Init /\ [][NextWriter]_vars

\* ---------------------------------------------- functions on their own
\* frame-control first bytes: association request, beacon, RTS (control),
\* data, QoS data, and a frame of the reserved type 3
FrameControls == {0, 128, 180, 8, 136, 12}

\* the LLC/SNAP area: the EAPOL pattern and every pattern that differs from
\* it in one byte, with that byte zero, one more or one less
LlcAreas ==
    {EapolLlc} \cup
    UNION { { [EapolLlc EXCEPT ![i] = v] :
                v \in {0, (EapolLlc[i] + 1) % 256, (EapolLlc[i] + 255) % 256} } :
            i \in 1..8 }

SigLens == {0, 24, 29, 30, 31, 32, 100}

\* buffers the driver may pass to promisc_cb: frame control, the header up
\* to offset 24, the LLC/SNAP area, and the length it reports
ClassifierInputs ==
    { [payload |-> <<fc0, fc1>> \o Zeros(LlcOffset - 2) \o llc, sig_len |-> n] :
        fc0 \in FrameControls, fc1 \in {0, 65}, llc \in LlcAreas, n \in SigLens }

Macs == {Broadcast, LocalMac, NoMac} \cup {ap.bssid : ap \in Targets}

DeauthInputs ==
    { [fn |-> "send_deauth_frame", dest |-> d, src |-> m, bssid |-> b, sent |-> << >>] :
        d \in Macs, m \in Macs, b \in Macs }

InitUnit ==
    \E u \in { [fn |-> "promisc_cb", pkt |-> p, wrote |-> "pending", reads |-> {}] :
                 p \in ClassifierInputs } \cup DeauthInputs :
        Boot(0, 0, u)

\* promisc_cb(buf, type) with g_capturing set: whether it reaches
\* pcap_writer_write_packet(payload, len), and the offsets of payload it read
Classify ==
    /\ unit.fn = "promisc_cb"
    /\ unit.wrote = "pending"
    /\ unit' = [unit EXCEPT !.wrote = IF Retains(unit.pkt) THEN "yes" ELSE "no",
                            !.reads = ClassifierReads(unit.pkt)]
    /\ UNCHANGED <<taskVars, globals, radio, writerVars, cbVars, envVars,
                   histVars, wraps, httpVars>>

\* send_deauth_frame(dest, src, bssid): the bytes handed to esp_wifi_80211_tx
SendDeauthFrame ==
    /\ unit.fn = "send_deauth_frame"
    /\ unit.sent = << >>
    /\ unit' = [unit EXCEPT !.sent = DeauthFrame(unit.dest, unit.src, unit.bssid)]
    /\ UNCHANGED <<taskVars, globals, radio, writerVars, cbVars, envVars,
                   histVars, wraps, httpVars>>

NextUnit ==
    \/ Classify
    \/ SendDeauthFrame

SpecUnit == InitUnit /\ [][NextUnit]_vars

\* any caller of the public function, alone: every channel a uint8_t argument
\* may carry, several durations, and an uptime below or above 2^32 ms
CallerTargets == Targets \cup {[bssid |-> <<16, 0, 0, 0, 0, 3>>, channel |-> 14]}
CallerDurations == {0, 25}
StartClocks == {0, 5999}
Wraps == {0, 1}

InitCaller == \E us \in StartClocks, w \in Wraps : Boot(us, w, NoUnit)

NextCaller ==
    \/ \E ap \in CallerTargets, d \in CallerDurations : Invoke(HttpTask, ap, d)
    \/ TaskBody(HttpTask)

\* the scheduler runs the calling task whenever it can take a step
SpecCaller == InitCaller /\ [][NextCaller]_vars /\ WF_vars(NextCaller)

\* the firmware as built: requests are handled one at a time by the server
\* task, which runs the capture inside the /attack handler
NextHttp ==
    \/ \E r \in Requests : HttpReceive(r)
    \/ RootGet
    \/ ScanGet
    \/ ConfirmGet
    \/ AttackGet
    \/ TaskBody(HttpTask)
    \/ AttackRespond
    \/ DownloadGet

SpecHttp == Init /\ [][NextHttp]_vars


\* ================================================================== claims
FileContent == disk.data \o fbuf

PayloadOf(i) == SubSeq(Packets[i].payload, 1, Packets[i].sig_len)

Returned(t) == pc[t] = "done"

HeaderWritten ==
    \E t \in Tasks :
        pc[t] \in ActivatingPcs \cup ActivePcs \cup RestoringPcs \/ ret[t] = "ESP_OK"

\* C1: whenever handshake_deauth_and_capture has returned, with whatever
\* result, the radio is not promiscuous and promisc_cb is not registered.
C1_TeardownInvariant ==
    \A t \in Tasks :
        Returned(t) => (~radio.promiscuous /\ radio.rx_cb # "promisc_cb")

\* C2: an invocation whose entry test runs while g_capturing is set returns
\* ESP_ERR_INVALID_STATE in that very step, leaving the radio, the capture
\* file and the stored target untouched, and has performed no side effect.
C2_StateExclusivity ==
    [][\A t \in Tasks :
         (pc[t] = "L87" /\ pc'[t] \in {"L90", "done"} /\ g_capturing)
            => /\ pc'[t] = "done"
               /\ ret'[t] = "ESP_ERR_INVALID_STATE"
               /\ effects'[t] = {}
               /\ UNCHANGED <<radio, writerVars, globals>>]_vars

\* C2 witness: a second caller was turned away while the first is in its
\* injection loop.
C2_Witness ==
    \E t, u \in Tasks :
        /\ t # u
        /\ pc[u] \in ActivePcs
        /\ g_capturing
        /\ Returned(t)
        /\ ret[t] = "ESP_ERR_INVALID_STATE"
        /\ g_target_bssid = args[u].bssid
        /\ args[t].bssid # args[u].bssid

\* C3: at most one invocation that is past its entry test and not yet
\* returned has called a radio reconfiguration function or pcap_writer_init.
C3_SingleSession ==
    Cardinality({t \in Tasks :
                    InSession(t) /\ effects[t] \cap {"radio", "file"} # {}}) <= 1

\* C4: once pcap_writer_init has succeeded, whenever no write is in flight
\* the capture file is the 24-byte header followed by complete records.
C4_ValidPrefix ==
    (HeaderWritten /\ CbIdle /\ disk.exists) => ValidCapture(FileContent)

\* C5: when every retained frame has been written and no write failed, the
\* file holds exactly those frames' records in the order of delivery.
C5_OrderedRecords ==
    (HeaderWritten /\ CbIdle /\ wfail = {} /\ Len(acked) = Len(rxlog))
        => /\ ValidCapture(FileContent)
           /\ CapturePayloads(FileContent)
                = [k \in 1..Len(rxlog) |-> PayloadOf(rxlog[k].pkt)]

\* C6: a session during whose injection loop pcap_writer_write_packet
\* returned false does not return ESP_OK.
C6_WriteErrorFailsSession ==
    \A t \in Tasks : ("active" \in wfail /\ Returned(t)) => ret[t] # "ESP_OK"

\* C7: every record for which pcap_writer_write_packet returned true is in
\* the file as stored in flash.
C7_DurableAppend ==
    \A k \in 1..Len(acked) :
        \E j \in 1..Len(CapturePayloads(disk.data)) :
            CapturePayloads(disk.data)[j] = PayloadOf(acked[k])

\* C8: an invocation one of whose setup calls failed transmits no deauth
\* frame, writes no record, and does not return ESP_OK.
C8_SetupFailureAborts ==
    \A t \in Tasks :
        setupFailed[t] =>
            /\ ret[t] # "ESP_OK"
            /\ \A x \in txlog : x.task # t
            /\ acked = << >>

\* C9: a record is completed only between the registration of the callback
\* and the first teardown call (line 130).
C9_WrittenOnlyInActive ==
    [][acked' # acked
         => \E t \in Tasks : pc[t] \in ActivatingPcs \cup ActivePcs \cup {"L130"}]_vars

\* C10: after a capture that returned ESP_OK, with every retained frame
\* delivered and its callback run during the injection loop, the file's
\* records are exactly those frames, in order.
C10_EndToEnd ==
    \A t \in Tasks :
        (Returned(t) /\ ret[t] = "ESP_OK" /\ CbIdle /\ ~late
            /\ \A k \in 1..Len(rxlog) : rxlog[k].win)
        => CapturePayloads(disk.data)
             = [k \in 1..Len(rxlog) |-> PayloadOf(rxlog[k].pkt)]

\* C15: an invocation with a channel outside 1..13 calls no radio function,
\* creates no capture file, and returns an invalid-argument error.
C15_InvalidChannelRejected ==
    \A t \in Tasks :
        (pc[t] # "idle" /\ InvalidChannel(args[t].channel))
            => /\ effects[t] \cap {"radio", "file"} = {}
               /\ ~disk.exists
               /\ Returned(t) => ret[t] = "ESP_ERR_INVALID_ARG"

\* C16: every invocation that has entered handshake_deauth_and_capture
\* eventually returns.
C16_Termination ==
    \A t \in Tasks : (pc[t] = "L87") ~> Returned(t)

\* C16 witness: a call has returned ESP_OK after its loop ran for the whole
\* duration, the clock having advanced past it.
C16_Witness ==
    \E t \in Tasks :
        /\ Returned(t)
        /\ ret[t] = "ESP_OK"
        /\ args[t].duration_ms > 0
        /\ clock \div 1000 - start_ms[t] >= args[t].duration_ms
        /\ \E x \in txlog : x.task = t

\* C17: the loop test sends the caller on to transmit whenever the elapsed
\* milliseconds since the loop started are below duration_ms. (start_ms holds
\* the low 32 bits of the start time and the uptime passes no multiple of
\* 2^32 ms during the loop, so the elapsed time is the difference of the low
\* limbs.)
C17_FullDuration ==
    [][\A t \in Tasks :
         (pc[t] = "L120" /\ pc'[t] \in {"L123", "L130"}
            /\ clock \div 1000 - start_ms[t] < args[t].duration_ms)
         => pc'[t] = "L123"]_vars

\* the client's pcap_writer_init has returned true for the file now at the
\* sink path
WriterOpened ==
    /\ disk.exists
    /\ nHandles > 0
    /\ pc[Client] \notin {"I37", "I53"}
    /\ ~setupFailed[Client]

\* no stream is open behind pcap_file
WriterClosed == pcap_file \notin openHandles

RecordArea == SubSeq(FileContent, GlobalHeaderLen + 1, Len(FileContent))

\* the 24 header bytes a reader expects: magic a1b2c3d4, version 2.4, zone 0,
\* sigfigs 0, snaplen 0000ffff, linktype 105, little-endian
HeaderBytes ==
    << 212, 195, 178, 161,  2, 0,  4, 0,  0, 0, 0, 0,
       0, 0, 0, 0,  255, 255, 0, 0,  105, 0, 0, 0 >>

IsPrefix(a, b) == Len(a) <= Len(b) /\ SubSeq(b, 1, Len(a)) = a

\* C11: when every pcap_writer_write_packet call since the file was opened
\* has returned true, the file reads back as the header followed by one
\* record per call, in call order, with the call's bytes and with incl_len
\* and orig_len both equal to its length.
C11_RecordRoundTrip ==
    (WriterOpened /\ CbIdle /\ wfail = {})
        => /\ ValidCapture(FileContent)
           /\ ReadRecords(RecordArea)
                = [k \in 1..Len(acked) |->
                     [incl_len |-> Packets[acked[k]].sig_len,
                      orig_len |-> Packets[acked[k]].sig_len,
                      data |-> PayloadOf(acked[k])]]

\* C11 witness: two buffers of different lengths were written and the file
\* was closed.
C11_Witness ==
    /\ WriterOpened
    /\ WriterClosed
    /\ wfail = {}
    /\ acked = <<1, 5>>
    /\ Len(disk.data) = GlobalHeaderLen + 2 * PacketHeaderLen + 32 + 3

\* C12: the moment pcap_writer_init returns true the file is the 24 header
\* bytes and nothing else; from then on, while that file stays open, its
\* content only grows at the end, so the header stays first and is neither
\* overwritten nor written again by the writer's own header code.
C12_HeaderOnceFirst ==
    [][/\ (~WriterOpened /\ WriterOpened') => FileContent' = HeaderBytes
       /\ (WriterOpened /\ WriterOpened' /\ nHandles' = nHandles)
            => /\ IsPrefix(HeaderBytes, FileContent)
               /\ IsPrefix(FileContent, FileContent')]_vars

\* C12 witness: a second file has been opened, after two write calls in all,
\* and holds a record behind its header.
C12_Witness ==
    /\ WriterOpened
    /\ nHandles = 2
    /\ pcap_file = 2
    /\ faults = 0
    /\ nrx = 2
    /\ Len(acked) = 1
    /\ Len(FileContent) > GlobalHeaderLen

\* C19: pcap_writer_close on a closed writer changes neither the writer nor
\* the file; pcap_writer_close always leaves the writer closed with the
\* file's content as it was; pcap_writer_write_packet on a closed writer
\* returns false and changes neither.
C19_CloseIdempotent ==
    [][/\ (pc[Client] = "L134" /\ pc'[Client] = "L135")
            => /\ WriterClosed'
               /\ FileContent' = FileContent
               /\ WriterClosed => UNCHANGED writerVars
       /\ (cbpc[1] = "W66" /\ cbpc'[1] # "W66" /\ WriterClosed)
            => /\ cbpc'[1] = "idle"
               /\ acked' = acked
               /\ wfail' # {}
               /\ UNCHANGED writerVars]_vars

\* C19 witness: after a file was opened and closed, a write was refused and
\* close has just run a second time.
C19_Witness ==
    /\ pc[Client] = "L135"
    /\ nHandles = 1
    /\ faults = 0
    /\ WriterClosed
    /\ wfail # {}
    /\ disk.data = HeaderBytes

\* C13: promisc_cb hands a frame to the writer exactly when the type bits
\* (bits 2-3 of byte 0) are 2, the length is at least 30 and bytes 24..31 are
\* AA AA 03 00 0C 00 88 8E; so a frame with one byte of the pattern changed,
\* of another type, or shorter than 30 is not written whatever else it holds.
C13_ClassifierCorrect ==
    (unit.fn = "promisc_cb" /\ unit.wrote # "pending") =>
        LET p == unit.pkt.payload
            isData == (p[1] \div 4) % 4 = 2
            pattern == SubSeq(p, 25, 32) = <<170, 170, 3, 0, 12, 0, 136, 142>>
            oneOff == Cardinality({i \in 1..8 : p[24 + i] # EapolLlc[i]}) = 1
        IN  /\ unit.wrote = "yes" <=> (isData /\ unit.pkt.sig_len >= 30 /\ pattern)
            /\ oneOff => unit.wrote = "no"
            /\ ~isData => unit.wrote = "no"
            /\ unit.pkt.sig_len < 30 => unit.wrote = "no"

\* C13 witness: a QoS data frame of exactly 30 bytes with the pattern in
\* place was handed to the writer.
C13_Witness ==
    /\ unit.fn = "promisc_cb"
    /\ unit.wrote = "yes"
    /\ unit.pkt.sig_len = 30
    /\ unit.pkt.payload[1] = 136
    /\ unit.pkt.payload[2] = 65

\* C14: the frame send_deauth_frame transmits is 26 bytes: C0, three zero
\* bytes, dest, src, bssid, two zero bytes, 07 00.
C14_DeauthShape ==
    (unit.fn = "send_deauth_frame" /\ unit.sent # << >>) =>
        /\ Len(unit.sent) = 26
        /\ SubSeq(unit.sent, 1, 4) = <<192, 0, 0, 0>>
        /\ SubSeq(unit.sent, 5, 10) = unit.dest
        /\ SubSeq(unit.sent, 11, 16) = unit.src
        /\ SubSeq(unit.sent, 17, 22) = unit.bssid
        /\ SubSeq(unit.sent, 23, 26) = <<0, 0, 7, 0>>

\* C14 witness: a frame was sent to the broadcast address from the local
\* address for a target BSSID, three different addresses.
C14_Witness ==
    /\ unit.fn = "send_deauth_frame"
    /\ unit.sent # << >>
    /\ unit.dest = Broadcast
    /\ unit.src = LocalMac
    /\ unit.bssid = <<16, 0, 0, 0, 0, 2>>

\* C18: after pcap_writer_init has failed the writer is closed, and what
\* /download serves from the sink path is a capture: the full header followed
\* by whole records, never a part of one.
C18_OpenFailureLeavesNothing ==
    /\ \A t \in Tasks :
         (Returned(t) /\ ret[t] = "ESP_FAIL") => (pcap_file = NULL /\ WriterClosed)
    /\ (resp.by = "download_get_handler" /\ resp.status = 200)
         => ValidCapture(resp.body)

\* the handler of a request to /, /scan, /confirm or /attack runs: the
\* request is answered, or the capture is entered
CleaningHandlerRuns ==
    /\ req.uri \in {"/", "/scan", "/confirm", "/attack"}
    /\ pc[HttpTask] = "idle"
    /\ (req' # req \/ pc' # pc)

\* C20: a handler of /, /scan, /confirm or /attack that runs while the file
\* exists deletes it, answers 302 with Location /scan and does nothing else
\* (no scan restarts the radio, no capture is entered); the handler of
\* /download leaves the file as it is.
C20_CleanupRule ==
    [][/\ (CleaningHandlerRuns /\ handshake_exists)
            => /\ ~handshake_exists'
               /\ resp' = [uri |-> req.uri, status |-> 302, location |-> "/scan",
                           by |-> "check_and_clean", body |-> << >>]
               /\ req' = NoRequest
               /\ UNCHANGED <<taskVars, globals, radio, pcap_file, envVars, histVars>>
       /\ (req.uri = "/download" /\ req' = NoRequest)
            => /\ disk' = disk
               /\ handshake_exists => resp'.status \in {200, 500}]_vars

\* C20 witness: an /attack request that found the file of an earlier capture
\* was answered with the redirect, the file is gone and no capture started.
C20_Witness ==
    /\ resp.uri = "/attack"
    /\ resp.status = 302
    /\ nreq = 2
    /\ ret[HttpTask] = "ESP_OK"
    /\ ~disk.exists
    /\ pc[HttpTask] = "idle"
    /\ clock = CaptureMs * 1000

\* C21: in no state is promiscuous mode on while the capture writer is not
\* open or promisc_cb is not the registered receive callback.
C21_SetupOrdering ==
    radio.promiscuous => (pcap_file # NULL /\ radio.rx_cb = "promisc_cb")

\* C22: every offset of the payload that promisc_cb reads while classifying
\* a frame is below the length of that frame.
C22_BoundsChecked ==
    (unit.fn = "promisc_cb" /\ unit.wrote # "pending") =>
        \A o \in unit.reads : o < unit.pkt.sig_len

\* C23: every frame a caller has handed to esp_wifi_80211_tx is the deauth
\* frame with receiver ff:ff:ff:ff:ff:ff, transmitter the local station
\* address, and BSSID the bssid argument of that caller's invocation.
C23_DeauthAddressing ==
    \A x \in txlog :
        x.frame = DeauthFrame(Broadcast, LocalMac, args[x.task].bssid)

\* C24: while a receive-callback invocation is inside
\* pcap_writer_write_packet past its NULL test, about to fwrite the record
\* header or the payload, the capture file has not been closed.
C24_NoWriteAfterClose ==
    \A c \in CBs : cbpc[c] \in {"W80", "W84"} => pcap_file # NULL

\* no task is inside handshake_deauth_and_capture
NoInvocation == \A t \in Tasks : pc[t] \in {"idle", "done"}

\* C25: with calls made one after another, whenever no invocation is in
\* progress g_capturing is false and no capture file is open; no invocation
\* is turned away at the entry test, and pcap_writer_init never opens a file
\* while an earlier handle is still open.
C25_CleanIdle ==
    /\ [](NoInvocation => (~g_capturing /\ pcap_file = NULL /\ openHandles = {}))
    /\ [][/\ \A t \in Tasks : (pc[t] = "L87" /\ pc'[t] # "L87") => pc'[t] # "done"
          /\ nHandles' > nHandles => openHandles = {}]_vars

\* C25 witness: a second invocation, made after the first returned ESP_OK,
\* passed the entry test, opened its own file and is in its injection loop.
C25_Witness ==
    /\ ret[HttpTask] = "ESP_OK"
    /\ pc[HttpTask] \in ActivePcs
    /\ nHandles = 2
    /\ openHandles = {2}
    /\ pcap_file = 2
    /\ g_capturing

====
